---- MODULE Spec2Model ----
(***************************************************************************)
(* The block state transition of go-abey: core/state_processor.go.         *)
(*                                                                         *)
(*   Process          runs the transactions of one block, in order,        *)
(*                    through ApplyTransaction and then calls the          *)
(*                    consensus engine's Finalize;                         *)
(*   ApplyTransaction recovers the message, applies the height-keyed       *)
(*                    deny-lists, runs the message and builds the receipt; *)
(*   ReadTransaction  runs one message for a read-only call.               *)
(*                                                                         *)
(* GasPool, ApplyMessage, StateDB, ForbidAddress, ForbidAddress2 and the   *)
(* consensus engine are other packages of the repository; what the model   *)
(* says about them is the specification's description of their interface.  *)
(*                                                                         *)
(* Spec       one call, on blocks that vary in height, gas limit, senders, *)
(*            gas and nonces;                                              *)
(* SpecFields one call, on blocks that vary in recipient, gas price and    *)
(*            explicit fee, with ReadTransaction repeated;                 *)
(* SpecPar    two Process calls whose steps interleave.                    *)
(***************************************************************************)
EXTENDS Integers, Sequences, FiniteSets, TLC

\* ------------------------------------------------------------------ bounds

\* Longest block (number of transactions).
MaxTxs == 2

\* Largest gas limit of one transaction.
MaxGas == 2

\* Largest gas limit of a block.
MaxGasLimit == 3

\* Most ReadTransaction calls made on one State Handle.
MaxReads == 2

\* Longest block of the two concurrent Process calls.
MaxParTxs == 1

\* ------------------------------------------------------- program constants

\* big.NewInt(6638000): above it ForbidAddress applies.
ForbidHeight1 == 6638000

\* big.NewInt(24642000): above it ForbidAddress2 applies too.
ForbidHeight2 == 24642000

\* math.MaxUint64, the seed of ReadTransaction's gas pool.  TLC's integers
\* are 32 bits wide, so the model uses the largest of them; all that the
\* code needs of the value is that no transaction's gas limit exceeds it.
MaxUint64 == 2147483647

\* ------------------------------------------------------------------ values

Nil == "nil"

ErrInvalidSig == "ErrInvalidSig"
ErrForbidden == "ErrForbidden"
ErrForbidden2 == "ErrForbidden2"
ErrNonce == "ErrNonce"
ErrGasLimitReached == "ErrGasLimitReached"
ErrFinalize == "ErrFinalize"

\* Sender addresses: one on no deny-list, one on the first, one on the second.
Addresses == {"clean", "deny1", "deny2"}

\* What a transaction's signature recovers to: an address, or nothing.
Signers == Addresses \cup {"invalid"}

\* Block heights on both sides of each deny-list threshold.
Heights == {ForbidHeight1, ForbidHeight1 + 1, ForbidHeight2, ForbidHeight2 + 1}

\* Transaction nonces: the parent state holds nonce 0 for every address, so
\* 0 matches a sender's first transaction and 1 its second.
Nonces == {0, 1}

\* What a transaction's `to` may be: absent (contract creation) or an address.
Recipients == {Nil, "clean"}

\* Gas prices.
GasPrices == {1, 2}

\* A transaction's explicit fee: absent (a nil *big.Int), or an amount.
NoFee == <<>>

Fees == {NoFee, <<1>>}

\* types.Transaction: the signature (by what it recovers to), the gas limit,
\* the nonce, the recipient, the gas price and the explicit fee.  Nothing
\* reads the gas limit or the nonce of a transaction whose signature does not
\* recover, so one such transaction stands for all.  These are calls at gas
\* price 1 with no explicit fee; FieldTransactions vary the other fields.
Transactions ==
    {t \in [signer : Signers, gas : 1..MaxGas, nonce : Nonces, to : {"clean"},
            gasPrice : {1}, fee : {NoFee}] :
        t.signer = "invalid" => (t.gas = 1 /\ t.nonce = 0)}

\* Transactions of one sender, with the largest gas limit, that vary in
\* nonce, recipient, gas price and fee.
FieldTransactions ==
    [signer : {"clean"}, gas : {MaxGas}, nonce : Nonces, to : Recipients,
     gasPrice : GasPrices, fee : Fees]

RECURSIVE SeqsUpTo(_, _)
SeqsUpTo(S, n) ==
    IF n = 0 THEN {<<>>}
    ELSE LET shorter == SeqsUpTo(S, n - 1)
         IN  shorter \cup {Append(s, x) : s \in {t \in shorter : Len(t) = n - 1}, x \in S}

\* types.Block: header (number, gas limit) and the ordered transactions.
Blocks == [number : Heights, gasLimit : 0..MaxGasLimit, txs : SeqsUpTo(Transactions, MaxTxs)]

\* Blocks of FieldTransactions, at one height and with the largest gas limit.
FieldBlocks ==
    [number : {ForbidHeight1}, gasLimit : {MaxGasLimit},
     txs : SeqsUpTo(FieldTransactions, MaxTxs)]

RECURSIVE SumGas(_)
SumGas(txs) == IF txs = <<>> THEN 0 ELSE Head(txs).gas + SumGas(Tail(txs))

VARIABLES
    block,      \* the block handed to Process / the header and tx of ReadTransaction
    statedb,    \* the State Handle
    pc,         \* where the call is: "start", "loop", "done", "read"
    i,          \* Process: number of transactions already iterated
    gp,         \* the gas pool of the call
    usedGas,    \* Process: *usedGas
    receipts,   \* Process: receipts
    allLogs,    \* Process: allLogs
    ret,        \* what Process returned
    rret,       \* what ReadTransaction returned
    executed,   \* history: the transactions handed to ApplyMessage, with its report
    finalizeCalls, \* history: number of engine.Finalize invocations
    feeAmount,  \* Process: feeAmount
    hookCall,   \* history: what engine.Finalize was handed and returned, <<>> before
    readsLeft,  \* how many more ReadTransaction calls the caller makes
    timers,     \* package level: updates of blockExecutionTxTimer / blockFinalizeTimer
    par         \* the locals of two concurrent Process calls

vars ==
    <<block, statedb, pc, i, gp, usedGas, receipts, allLogs, ret, rret, executed,
      finalizeCalls, feeAmount, hookCall, readsLeft, timers, par>>

\* ------------------------------------------------------------- collaborators

\* GasPool.AddGas: makes n more gas available.
AddGas(pool, n) == pool + n

\* GasPool.SubGas: fails when n exceeds what remains, otherwise debits.
SubGas(pool, n) ==
    IF pool < n THEN [err |-> ErrGasLimitReached, gas |-> pool]
    ELSE [err |-> Nil, gas |-> pool - n]

\* types.ForbidAddress: the first deny-list.
ForbidAddress(addr) == IF addr = "deny1" THEN ErrForbidden ELSE Nil

\* types.ForbidAddress2: the second deny-list.
ForbidAddress2(addr) == IF addr = "deny2" THEN ErrForbidden2 ELSE Nil

\* The height above which the new transaction hash is used (ChainConfig).
TIP10Height == ForbidHeight1 + 1

\* ChainConfig.IsTIP10.
IsTIP10(number) == number > TIP10Height

\* Transaction.HashOld and Transaction.Hash: the two hash derivations.
HashOld(tx) == <<"old", tx>>

Hash(tx) == <<"new", tx>>

\* The State Handle at the parent's post-state.
ParentState ==
    [thash |-> <<"none">>, txIndex |-> 0, nonce |-> [a \in Addresses |-> 0],
     logs |-> <<>>, journal |-> 0]

\* StateDB.Prepare: sets the transaction hash and index that logs are keyed by.
Prepare(db, thash, ti) == [db EXCEPT !.thash = thash, !.txIndex = ti]

\* StateDB.Finalise: closes the transaction's pending changes.
Finalise(db) == [db EXCEPT !.journal = 0]

\* StateDB.GetLogs: the logs recorded under a transaction hash.
GetLogs(db, thash) == SelectSeq(db.logs, LAMBDA l : l.thash = thash)

\* Transaction.AsMessage: signature recovery; the message checks its nonce.
AsMessage(tx) ==
    IF tx.signer = "invalid"
    THEN [err |-> ErrInvalidSig,
          msg |-> [from |-> "zero", gas |-> 0, nonce |-> 0, checkNonce |-> FALSE,
                   to |-> Nil, gasPrice |-> 0, fee |-> NoFee]]
    ELSE [err |-> Nil,
          msg |-> [from |-> tx.signer, gas |-> tx.gas, nonce |-> tx.nonce,
                   checkNonce |-> TRUE, to |-> tx.to, gasPrice |-> tx.gasPrice,
                   fee |-> tx.fee]]

\* types.NewMessage as ReadTransaction calls it: nonce 0, checkNonce false.
NewMessage(msg) == [msg EXCEPT !.nonce = 0, !.checkNonce = FALSE]

\* What the bytecode executor may report for a message that it runs: the gas
\* used, at most the message's gas, and whether the execution reverted.
ExecOutcomes(gas) == [used : 1..gas, failed : BOOLEAN]

\* ApplyMessage: the nonce check, the debit of the message's gas from the
\* pool, the execution (sender nonce bumped, a log when it did not revert),
\* and the return of the unused gas.  A rejection leaves pool and state alone.
ApplyMessage(db, msg, pool, out) ==
    LET bought == SubGas(pool, msg.gas)
        rejected(e) == [err |-> e, usedGas |-> 0, failed |-> FALSE, gp |-> pool,
                        statedb |-> db]
    IN  IF msg.checkNonce /\ db.nonce[msg.from] # msg.nonce THEN rejected(ErrNonce)
        ELSE IF bought.err # Nil THEN rejected(bought.err)
        ELSE [err |-> Nil, usedGas |-> out.used, failed |-> out.failed,
              gp |-> bought.gas + (msg.gas - out.used),
              statedb |->
                  [db EXCEPT !.nonce[msg.from] = @ + 1,
                             !.journal = @ + 1,
                             !.logs = IF out.failed THEN @
                                      ELSE Append(@, [thash |-> db.thash,
                                                      txIndex |-> db.txIndex])]]

\* ------------------------------------------------------------ ApplyTransaction

\* The deny-lists with the second one left out.
PolicyGate_OnlyFirst(number, from) ==
    IF number > ForbidHeight1 THEN ForbidAddress(from) ELSE Nil

\* The deny-lists applied from the threshold heights on, not above them.
PolicyGate_NonStrict(number, from) ==
    IF number >= ForbidHeight1
    THEN IF ForbidAddress(from) # Nil THEN ForbidAddress(from)
         ELSE IF number >= ForbidHeight2 THEN ForbidAddress2(from)
         ELSE Nil
    ELSE Nil

\* The deny-lists of ApplyTransaction, by block height.
PolicyGate(number, from) ==
    IF number > ForbidHeight1
    THEN IF ForbidAddress(from) # Nil THEN ForbidAddress(from)
         ELSE IF number > ForbidHeight2 THEN ForbidAddress2(from)
         ELSE Nil
    ELSE Nil

\* ApplyTransaction, lines 147-150: the transaction hash of the receipt.
TxHash(number, tx) == IF IsTIP10(number) THEN Hash(tx) ELSE HashOld(tx)

\* The zero address, which a receipt's ContractAddress holds until it is set.
EmptyAddress == <<"0x0">>

\* crypto.CreateAddress: the address of a contract, from the creator's
\* address and nonce.
CreateAddress(origin, nonce) == <<"contract", origin, nonce>>

\* The receipt's ContractAddress set for every transaction.
ContractAddressOf_Always(msg, tx) == CreateAddress(msg.from, tx.nonce)

\* ApplyTransaction, lines 157-159: the receipt's ContractAddress, set when
\* msg.To() is nil, from the origin (the sender) and the transaction's nonce.
ContractAddressOf(msg, tx) ==
    IF msg.to = Nil THEN CreateAddress(msg.from, tx.nonce) ELSE EmptyAddress

\* The fee accumulator without the explicit fee.
AddFees_GasOnly(fee, used, msg) == fee + used * msg.gasPrice

\* ApplyTransaction, lines 142-146: the gas fee (gas used times gas price)
\* and, when the message has one, the explicit fee, added to feeAmount.
AddFees(fee, used, msg) ==
    fee + used * msg.gasPrice + (IF msg.fee # NoFee THEN msg.fee[1] ELSE 0)

\* The receipt with the transaction's own gas as its cumulative gas.
NewReceipt_OwnGas(db, number, tx, res, cumulative) ==
    [Failed |-> res.failed,
     CumulativeGasUsed |-> res.usedGas,
     TxHash |-> TxHash(number, tx),
     GasUsed |-> res.usedGas,
     ContractAddress |-> ContractAddressOf(AsMessage(tx).msg, tx),
     Logs |-> GetLogs(db, TxHash(number, tx)),
     BlockNumber |-> number,
     TransactionIndex |-> db.txIndex]

\* types.NewReceipt and the fields ApplyTransaction sets on it.
NewReceipt(db, number, tx, res, cumulative) ==
    [Failed |-> res.failed,
     CumulativeGasUsed |-> cumulative,
     TxHash |-> TxHash(number, tx),
     GasUsed |-> res.usedGas,
     ContractAddress |-> ContractAddressOf(AsMessage(tx).msg, tx),
     Logs |-> GetLogs(db, TxHash(number, tx)),
     BlockNumber |-> number,
     TransactionIndex |-> db.txIndex]

\* ApplyTransaction with a reverted execution treated as a failure of the
\* transaction.
ApplyTransaction_AbortOnRevert(pool, db, number, tx, used, fee, out) ==
    LET m == AsMessage(tx)
        gate == PolicyGate(number, m.msg.from)
        res == ApplyMessage(db, m.msg, pool, out)
        exec == [err |-> res.err, used |-> res.usedGas, failed |-> res.failed]
        early(e) == [err |-> e, receipt |-> Nil, gp |-> pool, statedb |-> db,
                     usedGas |-> used, feeAmount |-> fee, ran |-> FALSE, exec |-> Nil]
    IN  IF m.err # Nil THEN early(m.err)
        ELSE IF gate # Nil THEN early(gate)
        ELSE IF res.err # Nil \/ res.failed
        THEN [err |-> IF res.err # Nil THEN res.err ELSE "ErrReverted",
              receipt |-> Nil, gp |-> res.gp,
              statedb |-> res.statedb, usedGas |-> used, feeAmount |-> fee,
              ran |-> TRUE, exec |-> exec]
        ELSE [err |-> Nil,
              receipt |-> NewReceipt(Finalise(res.statedb), number, tx, res,
                                     used + res.usedGas),
              gp |-> res.gp, statedb |-> Finalise(res.statedb),
              usedGas |-> used + res.usedGas,
              feeAmount |-> AddFees(fee, res.usedGas, m.msg),
              ran |-> TRUE, exec |-> exec]

\* ApplyTransaction without the statedb.Finalise of line 139.
ApplyTransaction_NoFinalise(pool, db, number, tx, used, fee, out) ==
    LET m == AsMessage(tx)
        gate == PolicyGate(number, m.msg.from)
        res == ApplyMessage(db, m.msg, pool, out)
        exec == [err |-> res.err, used |-> res.usedGas, failed |-> res.failed]
        early(e) == [err |-> e, receipt |-> Nil, gp |-> pool, statedb |-> db,
                     usedGas |-> used, feeAmount |-> fee, ran |-> FALSE, exec |-> Nil]
    IN  IF m.err # Nil THEN early(m.err)
        ELSE IF gate # Nil THEN early(gate)
        ELSE IF res.err # Nil
        THEN [err |-> res.err, receipt |-> Nil, gp |-> res.gp,
              statedb |-> res.statedb, usedGas |-> used, feeAmount |-> fee,
              ran |-> TRUE, exec |-> exec]
        ELSE [err |-> Nil,
              receipt |-> NewReceipt(res.statedb, number, tx, res, used + res.usedGas),
              gp |-> res.gp, statedb |-> res.statedb,
              usedGas |-> used + res.usedGas,
              feeAmount |-> AddFees(fee, res.usedGas, m.msg),
              ran |-> TRUE, exec |-> exec]

\* ApplyTransaction with the deny-lists consulted after the message has run.
ApplyTransaction_GateAfterExec(pool, db, number, tx, used, fee, out) ==
    LET m == AsMessage(tx)
        gate == PolicyGate(number, m.msg.from)
        res == ApplyMessage(db, m.msg, pool, out)
        exec == [err |-> res.err, used |-> res.usedGas, failed |-> res.failed]
        early(e) == [err |-> e, receipt |-> Nil, gp |-> pool, statedb |-> db,
                     usedGas |-> used, feeAmount |-> fee, ran |-> FALSE, exec |-> Nil]
    IN  IF m.err # Nil THEN early(m.err)
        ELSE IF res.err # Nil
        THEN [err |-> res.err, receipt |-> Nil, gp |-> res.gp,
              statedb |-> res.statedb, usedGas |-> used, feeAmount |-> fee,
              ran |-> TRUE, exec |-> exec]
        ELSE IF gate # Nil
        THEN [err |-> gate, receipt |-> Nil, gp |-> res.gp,
              statedb |-> Finalise(res.statedb), usedGas |-> used + res.usedGas,
              feeAmount |-> AddFees(fee, res.usedGas, m.msg),
              ran |-> TRUE, exec |-> exec]
        ELSE [err |-> Nil,
              receipt |-> NewReceipt(Finalise(res.statedb), number, tx, res,
                                     used + res.usedGas),
              gp |-> res.gp, statedb |-> Finalise(res.statedb),
              usedGas |-> used + res.usedGas,
              feeAmount |-> AddFees(fee, res.usedGas, m.msg),
              ran |-> TRUE, exec |-> exec]

\* ApplyTransaction, for the executor outcome `out`: the error, the receipt,
\* and the gas pool, State Handle, used-gas counter and fee accumulator as it
\* leaves them;
\* `ran` tells whether ApplyMessage was reached and `exec` what it reported.
ApplyTransaction(pool, db, number, tx, used, fee, out) ==
    LET m == AsMessage(tx)
        gate == PolicyGate(number, m.msg.from)
        res == ApplyMessage(db, m.msg, pool, out)
        exec == [err |-> res.err, used |-> res.usedGas, failed |-> res.failed]
        early(e) == [err |-> e, receipt |-> Nil, gp |-> pool, statedb |-> db,
                     usedGas |-> used, feeAmount |-> fee, ran |-> FALSE, exec |-> Nil]
    IN  IF m.err # Nil THEN early(m.err)
        ELSE IF gate # Nil THEN early(gate)
        ELSE IF res.err # Nil
        THEN [err |-> res.err, receipt |-> Nil, gp |-> res.gp,
              statedb |-> res.statedb, usedGas |-> used, feeAmount |-> fee,
              ran |-> TRUE, exec |-> exec]
        ELSE [err |-> Nil,
              receipt |-> NewReceipt(Finalise(res.statedb), number, tx, res,
                                     used + res.usedGas),
              gp |-> res.gp, statedb |-> Finalise(res.statedb),
              usedGas |-> used + res.usedGas,
              feeAmount |-> AddFees(fee, res.usedGas, m.msg),
              ran |-> TRUE, exec |-> exec]

\* ------------------------------------------------------------------- Process

NoReturn == [receipts |-> <<>>, logs |-> <<>>, usedGas |-> 0, infos |-> Nil, err |-> Nil]

NoRead == [data |-> Nil, usedGas |-> 0, err |-> Nil]

Init ==
    /\ block \in Blocks
    /\ statedb = ParentState
    /\ pc = "start"
    /\ i = 0
    /\ gp = 0
    /\ usedGas = 0
    /\ receipts = <<>>
    /\ allLogs = <<>>
    /\ ret = NoReturn
    /\ rret = NoRead
    /\ executed = {}
    /\ finalizeCalls = 0
    /\ feeAmount = 0
    /\ hookCall = <<>>
    /\ readsLeft = 1
    /\ timers = 0
    /\ par = <<>>

\* Process seeding the gas pool as ReadTransaction does.
ProcessStart_SeedMax ==
    /\ pc = "start"
    /\ pc' = "loop"
    /\ i' = 0
    /\ gp' = AddGas(0, MaxUint64)
    /\ usedGas' = 0
    /\ feeAmount' = 0
    /\ receipts' = <<>>
    /\ allLogs' = <<>>
    /\ UNCHANGED <<block, statedb, ret, rret, executed, finalizeCalls, hookCall,
                   readsLeft, timers, par>>

\* Process, lines 69-77: the locals; the gas pool is seeded with the block's
\* gas limit.
ProcessStart ==
    /\ pc = "start"
    /\ pc' = "loop"
    /\ i' = 0
    /\ gp' = AddGas(0, block.gasLimit)
    /\ usedGas' = 0
    /\ feeAmount' = 0
    /\ receipts' = <<>>
    /\ allLogs' = <<>>
    /\ UNCHANGED <<block, statedb, ret, rret, executed, finalizeCalls, hookCall,
                   readsLeft, timers, par>>

\* Prepare called with the index of the next transaction.
PrepareTx_OffByOne(db, number, tx, index) == Prepare(db, TxHash(number, tx), index + 1)

\* Prepare called with the legacy hash at every height.
PrepareTx_LegacyHash(db, number, tx, index) == Prepare(db, HashOld(tx), index)

\* Process, lines 80-84: the hash the transaction is keyed by (the legacy
\* one, replaced by the new one under TIP10) and statedb.Prepare with the
\* transaction's index in the block.
PrepareTx(db, number, tx, index) ==
    Prepare(db, IF IsTIP10(number) THEN Hash(tx) ELSE HashOld(tx), index)

\* The return on a failed transaction that hands back what was accumulated.
AbortReturn_Partial(err, rcpts, logs, used) ==
    [receipts |-> rcpts, logs |-> logs, usedGas |-> used, infos |-> Nil, err |-> err]

\* Process, lines 86-88: what Process returns when ApplyTransaction fails,
\* whatever receipts, logs and gas it has accumulated.
AbortReturn(err, rcpts, logs, used) == [NoReturn EXCEPT !.err = err]

\* The loop with a fresh gas pool for every transaction.
ProcessTx_ReseedPool ==
    /\ pc = "loop"
    /\ i < Len(block.txs)
    /\ LET tx == block.txs[i + 1]
           prepared == PrepareTx(statedb, block.number, tx, i)
       IN  \E out \in ExecOutcomes(tx.gas) :
               LET r == ApplyTransaction(AddGas(0, block.gasLimit), prepared,
                                         block.number, tx, usedGas, feeAmount, out)
               IN  /\ gp' = r.gp
                   /\ statedb' = r.statedb
                   /\ usedGas' = r.usedGas
                   /\ feeAmount' = r.feeAmount
                   /\ executed' = IF r.ran
                                  THEN executed \cup {[index |-> i, res |-> r.exec,
                                                       msg |-> AsMessage(tx).msg]}
                                  ELSE executed
                   /\ IF r.err # Nil
                      THEN /\ ret' = AbortReturn(r.err, receipts, allLogs, r.usedGas)
                           /\ pc' = "done"
                           /\ UNCHANGED <<i, receipts, allLogs>>
                      ELSE /\ receipts' = Append(receipts, r.receipt)
                           /\ allLogs' = allLogs \o r.receipt.Logs
                           /\ i' = i + 1
                           /\ UNCHANGED <<ret, pc>>
    /\ UNCHANGED <<block, rret, finalizeCalls, hookCall, readsLeft, timers, par>>

\* Process, lines 79-91: one iteration of the loop over block.Transactions().
ProcessTx ==
    /\ pc = "loop"
    /\ i < Len(block.txs)
    /\ LET tx == block.txs[i + 1]
           prepared == PrepareTx(statedb, block.number, tx, i)
       IN  \E out \in ExecOutcomes(tx.gas) :
               LET r == ApplyTransaction(gp, prepared, block.number, tx, usedGas, feeAmount, out)
               IN  /\ gp' = r.gp
                   /\ statedb' = r.statedb
                   /\ usedGas' = r.usedGas
                   /\ feeAmount' = r.feeAmount
                   /\ executed' = IF r.ran
                                  THEN executed \cup {[index |-> i, res |-> r.exec,
                                                       msg |-> AsMessage(tx).msg]}
                                  ELSE executed
                   /\ IF r.err # Nil
                      THEN /\ ret' = AbortReturn(r.err, receipts, allLogs, r.usedGas)
                           /\ pc' = "done"
                           /\ UNCHANGED <<i, receipts, allLogs>>
                      ELSE /\ receipts' = Append(receipts, r.receipt)
                           /\ allLogs' = allLogs \o r.receipt.Logs
                           /\ i' = i + 1
                           /\ UNCHANGED <<ret, pc>>
    /\ UNCHANGED <<block, rret, finalizeCalls, hookCall, readsLeft, timers, par>>

\* What engine.Finalize may return: an error, or one of the reward
\* summaries.
FinalizeOutcomes ==
    {[err |-> ErrFinalize, infos |-> Nil]} \cup [err : {Nil}, infos : {"rewardA", "rewardB"}]

\* engine.Finalize invoked whether or not transactions remain.
ProcessFinalize_Early ==
    /\ pc = "loop"
    /\ i <= Len(block.txs)
    /\ \E f \in FinalizeOutcomes :
           /\ ret' = IF f.err # Nil THEN [NoReturn EXCEPT !.err = f.err]
                     ELSE [receipts |-> receipts, logs |-> allLogs, usedGas |-> usedGas,
                           infos |-> f.infos, err |-> Nil]
           /\ timers' = IF f.err # Nil THEN timers ELSE timers + 1
           /\ hookCall' = <<[fee |-> feeAmount, receipts |-> receipts, ret |-> f]>>
    /\ finalizeCalls' = finalizeCalls + 1
    /\ pc' = "done"
    /\ UNCHANGED <<block, statedb, i, gp, usedGas, receipts, allLogs, rret, executed,
                   feeAmount, readsLeft, par>>

\* Process, lines 92-100: engine.Finalize, handed the receipts and the fee
\* total, which may fail; the update of the two timers; the return.
ProcessFinalize ==
    /\ pc = "loop"
    /\ i = Len(block.txs)
    /\ \E f \in FinalizeOutcomes :
           /\ ret' = IF f.err # Nil THEN [NoReturn EXCEPT !.err = f.err]
                     ELSE [receipts |-> receipts, logs |-> allLogs, usedGas |-> usedGas,
                           infos |-> f.infos, err |-> Nil]
           /\ timers' = IF f.err # Nil THEN timers ELSE timers + 1
           /\ hookCall' = <<[fee |-> feeAmount, receipts |-> receipts, ret |-> f]>>
    /\ finalizeCalls' = finalizeCalls + 1
    /\ pc' = "done"
    /\ UNCHANGED <<block, statedb, i, gp, usedGas, receipts, allLogs, rret, executed,
                   feeAmount, readsLeft, par>>

\* ------------------------------------------------------------ ReadTransaction

\* The deny-list check of ReadTransaction, by block height.
ReadPolicyGate(number, from) ==
    IF number > ForbidHeight1 THEN ForbidAddress(from) ELSE Nil

\* ReadTransaction on a transaction, for the executor outcome `out`: what it
\* returns, the gas pool and State Handle as it leaves them, and the message
\* it handed to ApplyMessage (line 197: msg, the one AsMessage returned).
ReadTransactionOf(db, number, tx, out) ==
    LET m == AsMessage(tx)
        msgCopy == NewMessage(m.msg)
        gate == ReadPolicyGate(number, msgCopy.from)
        pool == AddGas(0, MaxUint64)
        res == ApplyMessage(db, m.msg, pool, out)
        exec == [err |-> res.err, used |-> res.usedGas, failed |-> res.failed]
        early(e) == [ret |-> [NoRead EXCEPT !.err = e], gp |-> 0, statedb |-> db,
                     ran |-> FALSE, exec |-> Nil, handed |-> Nil]
    IN  IF m.err # Nil THEN early(m.err)
        ELSE IF gate # Nil THEN early(gate)
        ELSE IF res.err # Nil
        THEN [ret |-> [NoRead EXCEPT !.err = res.err], gp |-> res.gp,
              statedb |-> res.statedb, ran |-> TRUE, exec |-> exec, handed |-> m.msg]
        ELSE [ret |-> [data |-> "output", usedGas |-> res.usedGas, err |-> Nil],
              gp |-> res.gp, statedb |-> res.statedb, ran |-> TRUE, exec |-> exec,
              handed |-> m.msg]

\* A ReadTransaction call, on the header of the block and its first
\* transaction; the caller may call again, with the same inputs, on the State
\* Handle that the call before left.
ReadTransaction ==
    /\ pc \in {"start", "read"}
    /\ readsLeft > 0
    /\ block.txs # <<>>
    /\ \E out \in ExecOutcomes(block.txs[1].gas) :
           LET r == ReadTransactionOf(statedb, block.number, block.txs[1], out)
           IN  /\ rret' = r.ret
               /\ gp' = r.gp
               /\ statedb' = r.statedb
               /\ executed' = IF r.ran
                              THEN {[index |-> 0, res |-> r.exec, msg |-> r.handed]}
                              ELSE {}
    /\ pc' = "read"
    /\ readsLeft' = readsLeft - 1
    /\ UNCHANGED <<block, i, usedGas, receipts, allLogs, ret, finalizeCalls,
                   feeAmount, hookCall, timers, par>>

Next == ProcessStart \/ ProcessTx \/ ProcessFinalize \/ ReadTransaction

Spec == Init /\ [][Next]_vars

\* The calls on blocks whose transactions vary in recipient, gas price and
\* explicit fee, ReadTransaction being called up to MaxReads times.
InitFields ==
    /\ block \in FieldBlocks
    /\ statedb = ParentState
    /\ pc = "start"
    /\ i = 0
    /\ gp = 0
    /\ usedGas = 0
    /\ receipts = <<>>
    /\ allLogs = <<>>
    /\ ret = NoReturn
    /\ rret = NoRead
    /\ executed = {}
    /\ finalizeCalls = 0
    /\ feeAmount = 0
    /\ hookCall = <<>>
    /\ readsLeft = MaxReads
    /\ timers = 0
    /\ par = <<>>

SpecFields == InitFields /\ [][Next]_vars

\* ------------------------------------------------ two concurrent Process calls

\* The two calls.
Procs == {1, 2}

\* The transactions of their blocks: gas limit 1, from one sender or with a
\* signature that does not recover.
ParTransactions == {t \in Transactions : t.signer \in {"clean", "invalid"} /\ t.gas = 1}

ParBlocks ==
    [number : {ForbidHeight1, ForbidHeight1 + 1}, gasLimit : {0, MaxParTxs},
     txs : SeqsUpTo(ParTransactions, MaxParTxs)]

\* Process, lines 69-76, for one call: its arguments (the block and its own
\* State Handle) and its locals; `outs` and `hook` are history, the
\* executor's reports and the hook's return in this call.
Locals(b) ==
    [block |-> b, statedb |-> ParentState, pc |-> "start", i |-> 0, gp |-> 0,
     usedGas |-> 0, feeAmount |-> 0, receipts |-> <<>>, allLogs |-> <<>>,
     ret |-> NoReturn, outs |-> <<>>, hook |-> <<>>]

\* ProcessStart on the locals of one call.
LocalStart(loc) == [loc EXCEPT !.pc = "loop", !.gp = AddGas(0, loc.block.gasLimit)]

\* ProcessTx on the locals of one call, for the executor outcome `out`.
LocalTx(loc, out) ==
    LET tx == loc.block.txs[loc.i + 1]
        prepared == PrepareTx(loc.statedb, loc.block.number, tx, loc.i)
        r == ApplyTransaction(loc.gp, prepared, loc.block.number, tx, loc.usedGas,
                              loc.feeAmount, out)
        ran == [loc EXCEPT !.gp = r.gp, !.statedb = r.statedb, !.usedGas = r.usedGas,
                           !.feeAmount = r.feeAmount, !.outs = Append(@, out)]
    IN  IF r.err # Nil
        THEN [ran EXCEPT !.ret = AbortReturn(r.err, loc.receipts, loc.allLogs, r.usedGas),
                         !.pc = "done"]
        ELSE [ran EXCEPT !.receipts = Append(@, r.receipt),
                         !.allLogs = @ \o r.receipt.Logs,
                         !.i = @ + 1]

\* ProcessFinalize on the locals of one call, for the hook's return `f`.
LocalFinalize(loc, f) ==
    [loc EXCEPT !.ret = IF f.err # Nil THEN [NoReturn EXCEPT !.err = f.err]
                       ELSE [receipts |-> loc.receipts, logs |-> loc.allLogs,
                             usedGas |-> loc.usedGas, infos |-> f.infos, err |-> Nil],
                !.pc = "done",
                !.hook = <<f>>]

\* The variables of the single call, which the two concurrent calls leave
\* alone.
singleVars ==
    <<block, statedb, pc, i, gp, usedGas, receipts, allLogs, ret, rret, executed,
      finalizeCalls, feeAmount, hookCall, readsLeft>>

\* Two Process calls on different blocks, each with its own State Handle.
InitPar ==
    /\ block = [number |-> ForbidHeight1, gasLimit |-> 0, txs |-> <<>>]
    /\ statedb = ParentState
    /\ pc = "idle"
    /\ i = 0
    /\ gp = 0
    /\ usedGas = 0
    /\ receipts = <<>>
    /\ allLogs = <<>>
    /\ ret = NoReturn
    /\ rret = NoRead
    /\ executed = {}
    /\ finalizeCalls = 0
    /\ feeAmount = 0
    /\ hookCall = <<>>
    /\ readsLeft = 0
    /\ timers = 0
    /\ par \in {f \in [Procs -> {Locals(b) : b \in ParBlocks}] : f[1].block # f[2].block}

ParStart(p) ==
    /\ par[p].pc = "start"
    /\ par' = [par EXCEPT ![p] = LocalStart(par[p])]
    /\ UNCHANGED <<singleVars, timers>>

\* The loop of the two calls drawing on one gas pool, that of call 1.
ParTx_SharedPool(p) ==
    /\ par[p].pc = "loop"
    /\ par[p].i < Len(par[p].block.txs)
    /\ \E out \in ExecOutcomes(par[p].block.txs[par[p].i + 1].gas) :
           LET after == LocalTx([par[p] EXCEPT !.gp = par[1].gp], out)
           IN  par' = [q \in Procs |->
                          IF q = p THEN after
                          ELSE IF q = 1 THEN [par[1] EXCEPT !.gp = after.gp]
                          ELSE par[q]]
    /\ UNCHANGED <<singleVars, timers>>

\* One iteration of the loop in call p: it reads and writes the locals of
\* call p alone.
ParTx(p) ==
    /\ par[p].pc = "loop"
    /\ par[p].i < Len(par[p].block.txs)
    /\ \E out \in ExecOutcomes(par[p].block.txs[par[p].i + 1].gas) :
           par' = [par EXCEPT ![p] = LocalTx(par[p], out)]
    /\ UNCHANGED <<singleVars, timers>>

\* engine.Finalize and the return in call p; lines 98-99 update the two
\* package-level timers, which both calls share and neither reads.
ParFinalize(p) ==
    /\ par[p].pc = "loop"
    /\ par[p].i = Len(par[p].block.txs)
    /\ \E f \in FinalizeOutcomes :
           /\ par' = [par EXCEPT ![p] = LocalFinalize(par[p], f)]
           /\ timers' = IF f.err # Nil THEN timers ELSE timers + 1
    /\ UNCHANGED singleVars

NextPar == \E p \in Procs : ParStart(p) \/ ParTx(p) \/ ParFinalize(p)

SpecPar == InitPar /\ [][NextPar]_vars

\* ---------------------------------------------------------------- properties

\* The call is a Process call that has started.
InProcess == pc \in {"loop", "done"}

\* Process returned because ApplyTransaction failed on the transaction at
\* index i.
Aborted == pc = "done" /\ i < Len(block.txs)

\* The transactions that the executor ran (ApplyMessage returned no error).
Applied == {e \in executed : e.res.err = Nil}

\* The indices of the transactions handed to ApplyMessage.
ExecutedIndices == {e.index : e \in executed}

RECURSIVE SumUsed(_)
SumUsed(S) ==
    IF S = {} THEN 0
    ELSE LET e == CHOOSE x \in S : TRUE IN e.res.used + SumUsed(S \ {e})

\* What the transaction at index i fails with in the current state, Nil when
\* it does not fail (the error does not depend on the executor's outcome).
TxError ==
    ApplyTransaction(gp, PrepareTx(statedb, block.number, block.txs[i + 1], i),
                     block.number, block.txs[i + 1], usedGas, feeAmount,
                     [used |-> 1, failed |-> FALSE]).err

\* Every transaction that the executor ran has its receipt, with the
\* executor's failed flag and its gas charged, and Process aborts only on an
\* ApplyTransaction error.
RevertIsReceipted ==
    InProcess =>
        /\ \A e \in Applied :
              /\ e.index < Len(receipts)
              /\ receipts[e.index + 1].Failed = e.res.failed
              /\ receipts[e.index + 1].GasUsed = e.res.used
              /\ e.res.used >= 1
        /\ usedGas = SumUsed(Applied)
        /\ Aborted => (ret.err # Nil /\ i \notin {e.index : e \in Applied})

\* C1 (as amended): a transaction that reverts in the executor still gets a
\* receipt with success = false and its gas charged, and Process goes on;
\* only an ApplyTransaction error aborts the block.  When every transaction
\* succeeds or reverts and the Finalization Hook returns no error, Process
\* returns exactly one receipt per transaction.
C1_RevertYieldsReceipt ==
    /\ RevertIsReceipted
    /\ (pc = "done" /\ i = Len(block.txs) /\ ret.err = Nil) =>
           (ret.receipts = receipts /\ Len(ret.receipts) = Len(block.txs))

\* C1 witness: a block of two transactions, the first reverted, the second
\* run after it, both receipted.
C1_Witness ==
    /\ pc = "done" /\ ret.err = Nil /\ Len(ret.receipts) = 2
    /\ ret.receipts[1].Failed /\ ~ret.receipts[2].Failed
    /\ ret.receipts[1].GasUsed >= 1
    /\ ret.usedGas = ret.receipts[1].GasUsed + ret.receipts[2].GasUsed

\* C1 as stated: whenever every transaction succeeded or reverted, Process
\* returns one receipt per transaction (whatever the Finalization Hook did).
C1_Original ==
    /\ RevertIsReceipted
    /\ (pc = "done" /\ i = Len(block.txs)) => Len(ret.receipts) = Len(block.txs)

\* C2: when ApplyTransaction fails on the transaction at index k, Process
\* stops there: it returns that error with no receipts, no logs, zero gas
\* and no reward summary, the Finalization Hook is not invoked, no
\* transaction after k is handed to the executor, and nothing follows.
C2_AbortOnFirstFailure ==
    /\ [](Aborted =>
            /\ ret.err # Nil
            /\ ret = [receipts |-> <<>>, logs |-> <<>>, usedGas |-> 0, infos |-> Nil,
                      err |-> ret.err]
            /\ finalizeCalls = 0
            /\ \A k \in ExecutedIndices : k <= i)
    /\ [][/\ pc # "done"
          /\ (pc = "loop" /\ i < Len(block.txs) /\ TxError # Nil) =>
                 (pc' = "done" /\ i' = i /\ ret'.err = TxError)]_vars

\* C2 witness: the first of two transactions fails, after ProcessStart.
C2_Witness ==
    /\ Aborted /\ i = 0 /\ Len(block.txs) = 2
    /\ ret.err = ErrInvalidSig /\ ExecutedIndices = {}

\* The nonces and logs the State Handle holds after the first n transactions
\* of the block were applied to the parent state.
NoncesAfter(n) ==
    [a \in Addresses |-> Cardinality({k \in 1..n : block.txs[k].signer = a})]

\* C3 (as amended): when Process aborts on the transaction at index k,
\* nothing is rolled back: the State Handle holds exactly the effects of
\* the transactions 0..k-1, finalised, and no effect of transaction k.
C3_AbortKeepsEarlierEffects ==
    Aborted =>
        /\ statedb.nonce = NoncesAfter(i)
        /\ Len(statedb.logs) = Cardinality({e \in Applied : ~e.res.failed})
        /\ statedb.journal = 0
        /\ {e.index : e \in Applied} = 0..(i - 1)

\* C3 witness: the second transaction fails signature recovery after the
\* first was applied, and the first one's nonce bump is still in the state.
C3_Witness ==
    /\ Aborted /\ i = 1 /\ ret.err = ErrInvalidSig
    /\ statedb.nonce # ParentState.nonce

\* C3 as stated: after an abort the State Handle is as it was at the
\* parent's post-state.
C3_Original ==
    Aborted => (statedb.nonce = ParentState.nonce /\ statedb.logs = ParentState.logs)

\* C4: during Process the gas pool stays between 0 and the block's gas
\* limit and the used-gas counter, and every receipt's cumulative gas, stays
\* at most the block's gas limit; a debit larger than what remains fails
\* with the gas-limit error and leaves the pool as it was.
C4_GasPoolWithinLimit ==
    /\ [](InProcess =>
            /\ 0 <= gp /\ gp <= block.gasLimit
            /\ usedGas <= block.gasLimit
            /\ \A k \in 1..Len(receipts) :
                  receipts[k].CumulativeGasUsed <= block.gasLimit
            /\ \A n \in 0..MaxGas :
                  n > gp => SubGas(gp, n) = [err |-> ErrGasLimitReached, gas |-> gp])
    /\ [][(pc = "loop" /\ i < Len(block.txs) /\ TxError = ErrGasLimitReached) =>
              (gp' = gp /\ usedGas' = usedGas /\ ret'.err = ErrGasLimitReached)]_vars

\* C4 witness: a debit refused by a pool that earlier transactions have
\* partly used and that still holds gas.
C4_Witness ==
    /\ Aborted /\ ret.err = ErrGasLimitReached
    /\ i = 1 /\ gp > 0 /\ gp < block.gasLimit

ReachesDebit ==
    LET tx == block.txs[i + 1]
    IN  /\ AsMessage(tx).err = Nil
        /\ PolicyGate(block.number, tx.signer) = Nil
        /\ statedb.nonce[tx.signer] = tx.nonce

\* C6 (as amended): Process fails with the gas-limit error at transaction k
\* exactly when the transactions 0..k-1 have been applied in order and
\* transaction k, getting as far as the debit, has a gas limit above what
\* remains in the pool (the block's gas limit less the gas the earlier ones
\* used); it then returns no receipts.
C6_FailsAtFirstOverdraw ==
    /\ []((pc = "done" /\ ret.err = ErrGasLimitReached) =>
            /\ Aborted
            /\ {e.index : e \in Applied} = 0..(i - 1)
            /\ gp = block.gasLimit - SumUsed(Applied)
            /\ block.txs[i + 1].gas > gp
            /\ \A e \in Applied :
                  block.txs[e.index + 1].gas <=
                      block.gasLimit - SumUsed({f \in Applied : f.index < e.index})
            /\ ret.receipts = <<>>)
    /\ [][(pc = "loop" /\ i < Len(block.txs) /\ ReachesDebit) =>
              IF block.txs[i + 1].gas > gp
              THEN pc' = "done" /\ ret'.err = ErrGasLimitReached /\ ret'.receipts = <<>>
              ELSE pc' = "loop" /\ i' = i + 1]_vars

\* C6 witness: the block's gas limit is below the sum of the transactions'
\* gas limits, the first transaction was applied and the second is refused.
C6_Witness ==
    /\ pc = "done" /\ ret.err = ErrGasLimitReached
    /\ i = 1 /\ Len(receipts) = 1 /\ ret.receipts = <<>>
    /\ block.gasLimit < SumGas(block.txs)

\* C6 as stated: a block whose gas limit is below the sum of its
\* transactions' gas limits, and none of whose transactions fails for
\* another reason, ends in the gas-limit error with no receipts.
C6_Original ==
    (/\ pc = "done"
     /\ block.gasLimit < SumGas(block.txs)
     /\ ret.err \in {Nil, ErrGasLimitReached}) =>
        (ret.err = ErrGasLimitReached /\ ret.receipts = <<>>)

\* C7: on success Process returns one receipt per transaction, in block
\* order, the receipt at position k carrying TransactionIndex k.
C7_ReceiptsInOrder ==
    /\ InProcess =>
          \A k \in 1..Len(receipts) :
              /\ receipts[k].TransactionIndex = k - 1
              /\ receipts[k].TxHash = TxHash(block.number, block.txs[k])
    /\ (pc = "done" /\ ret.err = Nil) =>
          (ret.receipts = receipts /\ Len(ret.receipts) = Len(block.txs))

\* C7 witness: a successful Process of two transactions.
C7_Witness ==
    /\ pc = "done" /\ ret.err = Nil /\ Len(ret.receipts) = 2
    /\ ret.receipts[2].TransactionIndex = 1

\* The sender is on a deny-list that applies at the height.
Denied(number, addr) ==
    \/ number > 6638000 /\ ForbidAddress(addr) # Nil
    \/ number > 24642000 /\ ForbidAddress2(addr) # Nil

\* C8: a transaction whose sender is on a deny-list active at the block's
\* height never gets a receipt and is never handed to the executor, and
\* Process fails for the block, with the forbidden-sender error when it
\* gets to that transaction.
C8_DeniedSenderNoReceipt ==
    InProcess =>
        \A k \in 1..Len(block.txs) :
            Denied(block.number, block.txs[k].signer) =>
                /\ Len(receipts) < k
                /\ (k - 1) \notin ExecutedIndices
                /\ pc = "done" => (ret.err # Nil /\ ret.receipts = <<>>)
                /\ (Aborted /\ i = k - 1) => ret.err \in {ErrForbidden, ErrForbidden2}

\* C8 witness: above the second threshold, a sender on the second list is
\* refused after an earlier transaction was applied.
C8_Witness ==
    /\ Aborted /\ i = 1 /\ ret.err = ErrForbidden2
    /\ block.number > ForbidHeight2 /\ block.txs[2].signer = "deny2"
    /\ ExecutedIndices = {0}

\* C9: the Policy Gate by height: up to 6638000 nobody is rejected, above
\* it and up to 24642000 exactly the first list, above 24642000 the first
\* or the second list; so a sender rejected at one height is rejected at
\* every greater one.
C9_GateByHeight ==
    /\ \A a \in Addresses :
          PolicyGate(block.number, a) # Nil <=>
              IF block.number <= 6638000 THEN FALSE
              ELSE IF block.number <= 24642000 THEN ForbidAddress(a) # Nil
              ELSE ForbidAddress(a) # Nil \/ ForbidAddress2(a) # Nil
    /\ \A a \in Addresses : \A h \in Heights :
          (h > block.number /\ PolicyGate(block.number, a) # Nil) => PolicyGate(h, a) # Nil
    /\ (Aborted /\ block.txs[i + 1].signer # "invalid") =>
          (ret.err \in {ErrForbidden, ErrForbidden2}
              <=> Denied(block.number, block.txs[i + 1].signer))
    /\ InProcess =>
          \A k \in 1..Len(receipts) : ~Denied(block.number, block.txs[k].signer)

\* C9 witness: just above the first threshold a sender on the first list is
\* rejected.
C9_Witness ==
    /\ Aborted /\ block.number = 6638001
    /\ block.txs[i + 1].signer = "deny1" /\ ret.err = ErrForbidden

\* C10: ReadTransaction rejects a sender as forbidden exactly when
\* ApplyTransaction does at that height.
C10_ReadGateLockStep ==
    (pc = "read" /\ block.txs[1].signer # "invalid") =>
        (rret.err \in {ErrForbidden, ErrForbidden2} <=>
            ApplyTransaction(AddGas(0, block.gasLimit),
                             PrepareTx(ParentState, block.number, block.txs[1], 0),
                             block.number, block.txs[1], 0, 0,
                             [used |-> 1, failed |-> FALSE]).err
                \in {ErrForbidden, ErrForbidden2})

\* C11: ReadTransaction leaves the State Handle as it found it: after any
\* number of calls the nonces are those of the parent state, and a call
\* repeated with the same inputs ends as the call before it did (with an
\* error or without).
C11_ReadLeavesStateAlone ==
    [][pc' = "read" =>
          /\ statedb'.nonce = ParentState.nonce
          /\ pc = "read" => (rret'.err = Nil <=> rret.err = Nil)]_vars

\* C12: the message that ReadTransaction hands to the executor has nonce 0
\* and nonce checking disabled, so no ReadTransaction call is rejected for a
\* nonce mismatch.
C12_ReadHandsReconstructed ==
    pc = "read" =>
        /\ \A e \in executed : e.msg.nonce = 0 /\ ~e.msg.checkNonce
        /\ rret.err # ErrNonce

\* The hash the transaction at position k of the block goes by at the
\* block's height.
HashAtHeight(k) ==
    IF IsTIP10(block.number) THEN Hash(block.txs[k]) ELSE HashOld(block.txs[k])

\* C13: one hash per transaction, chosen by IsTIP10 of the block's height
\* (the new derivation when it holds, the legacy one otherwise): the hash
\* given to Prepare, under which the execution's logs are recorded, is the
\* receipt's TxHash and the hash the receipt's logs are fetched by.
C13_OneHashThroughout ==
    InProcess =>
        /\ \A k \in 1..Len(receipts) :
              /\ receipts[k].TxHash = HashAtHeight(k)
              /\ receipts[k].Logs =
                     IF receipts[k].Failed THEN <<>>
                     ELSE <<[thash |-> HashAtHeight(k), txIndex |-> k - 1]>>
        /\ (pc = "loop" /\ i >= 1) => statedb.thash = receipts[i].TxHash
        /\ Aborted => statedb.thash = HashAtHeight(i + 1)

\* C13 witness: under TIP10 a transaction's log was recorded and fetched
\* under the new hash, after an earlier transaction of the block.
C13_Witness ==
    /\ pc = "loop" /\ i = 2 /\ IsTIP10(block.number)
    /\ receipts[2].TxHash = Hash(block.txs[2])
    /\ receipts[2].Logs # <<>> /\ receipts[2].Logs[1].thash = Hash(block.txs[2])

\* What one executed transaction adds to the fees: the gas it used times its
\* gas price, and its explicit fee when it has one.
FeeOf(e) ==
    LET tx == block.txs[e.index + 1]
    IN  e.res.used * tx.gasPrice + (IF tx.fee # NoFee THEN tx.fee[1] ELSE 0)

RECURSIVE SumFees(_)
SumFees(S) ==
    IF S = {} THEN 0
    ELSE LET e == CHOOSE x \in S : TRUE IN FeeOf(e) + SumFees(S \ {e})

\* C14: the fee accumulator starts at zero; after the transactions 0..i-1 it
\* is the sum, over them, of gas used times gas price plus the explicit fee
\* where there is one; and the Finalization Hook is handed that total for
\* the whole block.
C14_FeeTotal ==
    InProcess =>
        /\ {e.index : e \in Applied} = 0..(i - 1)
        /\ feeAmount = SumFees(Applied)
        /\ i = 0 => feeAmount = 0
        /\ finalizeCalls > 0 =>
              (i = Len(block.txs) /\ hookCall[1].fee = SumFees(Applied))
        /\ finalizeCalls = 0 => hookCall = <<>>

\* C14 witness: the hook was handed the fees of two transactions, one at gas
\* price 2 with an explicit fee and one at gas price 1 without.
C14_Witness ==
    /\ pc = "done" /\ Len(receipts) = 2
    /\ block.txs[1].gasPrice = 2 /\ block.txs[1].fee = <<1>>
    /\ block.txs[2].gasPrice = 1 /\ block.txs[2].fee = NoFee
    /\ hookCall # <<>>
    /\ hookCall[1].fee = 2 * receipts[1].GasUsed + 1 + receipts[2].GasUsed

\* C15: the Finalization Hook is invoked at most once in a Process call, and
\* only once every transaction of the block has been applied (never while
\* transactions remain, never when one failed); it is invoked whenever they
\* all were.  When it returns an error Process returns that error with no
\* receipts, no logs, zero gas and no reward summary; otherwise Process
\* returns the receipts, the logs, the gas and the hook's reward summary.
C15_HookOnceAtEnd ==
    /\ [](InProcess =>
            /\ finalizeCalls <= 1
            /\ finalizeCalls = Len(hookCall)
            /\ Aborted => finalizeCalls = 0
            /\ (pc = "done" /\ ~Aborted) => finalizeCalls = 1
            /\ finalizeCalls = 1 =>
                  /\ pc = "done" /\ i = Len(block.txs)
                  /\ {e.index : e \in Applied} = 0..(Len(block.txs) - 1)
                  /\ hookCall[1].receipts = receipts
                  /\ Len(receipts) = Len(block.txs)
                  /\ ret = IF hookCall[1].ret.err # Nil
                           THEN [receipts |-> <<>>, logs |-> <<>>, usedGas |-> 0,
                                 infos |-> Nil, err |-> hookCall[1].ret.err]
                           ELSE [receipts |-> receipts, logs |-> allLogs,
                                 usedGas |-> usedGas,
                                 infos |-> hookCall[1].ret.infos, err |-> Nil])
    /\ [][(pc = "loop" /\ i < Len(block.txs)) => finalizeCalls' = 0]_vars

\* C15 witness: after two transactions were applied the hook failed, and
\* Process returned its error and nothing else.
C15_Witness ==
    /\ pc = "done" /\ finalizeCalls = 1 /\ Len(receipts) = 2
    /\ hookCall[1].ret.err = ErrFinalize
    /\ ret.err = ErrFinalize /\ ret.receipts = <<>> /\ ret.usedGas = 0
    /\ usedGas > 0

\* C16: a receipt's ContractAddress is set exactly when the transaction has
\* no recipient; it is then the address derived from the sender and the
\* transaction's nonce, the same for the same pair, and never the empty
\* address.
C16_ContractAddressIffCreation ==
    InProcess =>
        /\ \A k \in 1..Len(receipts) :
              /\ receipts[k].ContractAddress # EmptyAddress <=> block.txs[k].to = Nil
              /\ block.txs[k].to = Nil =>
                     receipts[k].ContractAddress =
                         CreateAddress(block.txs[k].signer, block.txs[k].nonce)
        /\ \A a \in Addresses : \A n \in Nonces : CreateAddress(a, n) # EmptyAddress
        /\ \A a, b \in Addresses : \A n, m \in Nonces :
              CreateAddress(a, n) = CreateAddress(b, m) <=> (a = b /\ n = m)

\* C16 witness: a block with a contract creation and a call, both receipted.
C16_Witness ==
    /\ pc = "loop" /\ Len(receipts) = 2
    /\ block.txs[1].to = Nil /\ block.txs[2].to # Nil
    /\ receipts[1].ContractAddress = CreateAddress("clean", 0)
    /\ receipts[2].ContractAddress = EmptyAddress

RECURSIVE PrefixGas(_)
\* The gas used by the first k receipts together.
PrefixGas(k) == IF k = 0 THEN 0 ELSE receipts[k].GasUsed + PrefixGas(k - 1)

\* C19: the cumulative gas of the receipt at position k is the sum of the
\* gas used by the receipts up to and including it, so it never decreases
\* along the receipts; the total gas that Process returns is the cumulative
\* gas of the last receipt, 0 for a block without transactions.
C19_CumulativeIsPrefixSum ==
    InProcess =>
        /\ \A k \in 1..Len(receipts) :
              /\ receipts[k].CumulativeGasUsed = PrefixGas(k)
              /\ k > 1 => receipts[k].CumulativeGasUsed >= receipts[k - 1].CumulativeGasUsed
        /\ usedGas = IF receipts = <<>> THEN 0
                     ELSE receipts[Len(receipts)].CumulativeGasUsed
        /\ (pc = "done" /\ ret.err = Nil) =>
              /\ ret.receipts = receipts
              /\ ret.usedGas = IF ret.receipts = <<>> THEN 0
                               ELSE ret.receipts[Len(ret.receipts)].CumulativeGasUsed

\* C19 witness: Process returned two receipts, the second one's own gas
\* below its cumulative gas, which is the total returned.
C19_Witness ==
    /\ pc = "done" /\ ret.err = Nil /\ Len(ret.receipts) = 2
    /\ ret.receipts[2].GasUsed < ret.receipts[2].CumulativeGasUsed
    /\ ret.receipts[2].CumulativeGasUsed = ret.usedGas
    /\ ret.receipts[1].CumulativeGasUsed = ret.receipts[1].GasUsed

\* C20: when ApplyTransaction fails at signature recovery or at the Policy
\* Gate it returns no receipt and leaves the gas pool, the used-gas counter,
\* the fee accumulator and the State Handle as they were when it was called
\* (the executor is not reached); and whatever error ApplyTransaction
\* returns, the used-gas counter and the fee accumulator are unchanged.
C20_EarlyFailureChangesNothing ==
    [][(pc = "loop" /\ i < Len(block.txs) /\ pc' = "done") =>
          /\ ret'.err # Nil
          /\ usedGas' = usedGas
          /\ feeAmount' = feeAmount
          /\ receipts' = receipts /\ ret'.receipts = <<>>
          /\ ret'.err \in {ErrInvalidSig, ErrForbidden, ErrForbidden2} =>
                /\ gp' = gp
                /\ statedb' = PrepareTx(statedb, block.number, block.txs[i + 1], i)
                /\ statedb'.nonce = statedb.nonce
                /\ statedb'.logs = statedb.logs
                /\ statedb'.journal = statedb.journal
                /\ executed' = executed]_vars

\* C20 witness: a sender on the first deny-list is refused after an earlier
\* transaction has used gas and paid fees, which are all still there.
C20_Witness ==
    /\ Aborted /\ i = 1 /\ ret.err = ErrForbidden
    /\ usedGas > 0 /\ feeAmount > 0
    /\ gp = block.gasLimit - usedGas
    /\ ExecutedIndices = {0}

RECURSIVE AloneTxs(_, _)
\* The locals of a call after its loop has run, by itself, the transactions
\* for which the executor reported `outs`.
AloneTxs(loc, outs) ==
    IF outs = <<>> THEN loc ELSE AloneTxs(LocalTx(loc, Head(outs)), Tail(outs))

\* Process run alone on block b, the executor reporting `outs` and the hook,
\* when it is reached, returning hook[1].
Alone(b, outs, hook) ==
    LET looped == AloneTxs(LocalStart(Locals(b)), outs)
    IN  IF hook = <<>> THEN looped ELSE LocalFinalize(looped, hook[1])

\* C18: two concurrent Process calls on different blocks, each with its own
\* State Handle: under every interleaving of their steps each call is where
\* it would be had it run alone with the same reports of the executor and
\* the hook, so it returns what it would return alone; a step of one call
\* changes nothing of the other; the timers they share count the calls that
\* succeeded and feed no result.
C18_ConcurrentCallsIndependent ==
    /\ [](\A p \in DOMAIN par :
            /\ par[p].pc # "start" =>
                   par[p] = Alone(par[p].block, par[p].outs, par[p].hook)
            /\ par[p].pc = "done" =>
                   par[p].ret = Alone(par[p].block, par[p].outs, par[p].hook).ret)
    /\ [](par # <<>> =>
            timers = Cardinality({p \in DOMAIN par :
                                     par[p].pc = "done" /\ par[p].ret.err = Nil}))
    /\ [][\A p, q \in DOMAIN par :
              (p # q /\ par'[p] # par[p]) => par'[q] = par[q]]_vars

\* C18 witness: call 2 has returned its receipt while call 1 is inside its
\* loop with one transaction applied.
C18_Witness ==
    /\ par # <<>>
    /\ par[2].pc = "done" /\ par[2].ret.err = Nil /\ Len(par[2].ret.receipts) = 1
    /\ par[1].pc = "loop" /\ par[1].i = 1 /\ timers = 1

====
